---- MODULE Spec2Model ----
(***************************************************************************)
(* Personal journal service (src/app.py): startup, the scoped connection   *)
(* source get_db_connection, and the four JSON handlers over the table     *)
(* journal_entries.                                                        *)
(*                                                                         *)
(* Requests are numbered in their order of arrival.  A request is handled  *)
(* in three steps: the HTTP layer delivers it (Receive), the handler       *)
(* parses and validates it and enters the connection scope (EnterScope),   *)
(* the scope's body runs its statement and leaves the scope (LeaveScope).  *)
(* Scope 0 is the scope init_db opens at startup.                          *)
(*                                                                         *)
(* Every scope runs one statement in a transaction of its own, and the     *)
(* database serialises these transactions, so the statement, its commit or *)
(* rollback and the release are one step; what a transaction wrote and     *)
(* did not commit is gone when its connection is released.  Each scope     *)
(* keeps the trace of the calls it made on its connection.                 *)
(***************************************************************************)
EXTENDS Integers, Sequences, FiniteSets, TLC

VARIABLES
    phase,            \* position of the __main__ block
    connection_pool,  \* TRUE when the global holds a pool, FALSE when it is None
    used,             \* connections the pool has handed out and not got back
    table,            \* committed rows of journal_entries
    id_seq,           \* next value of the SERIAL sequence behind id
    clock,            \* next value CURRENT_TIMESTAMP yields to a new transaction
    schema,           \* TRUE once the CREATE TABLE / CREATE INDEX are committed
    req               \* per scope: the request, the handler's locals, its trace

vars == <<phase, connection_pool, used, table, id_seq, clock, schema, req>>

\* ---------------------------------------------------------------- bounds
NumReq == 2

\* ------------------------------------------------------------- constants
maxconn == 10

NoConn == 0
PoolConns == 1..maxconn
\* a connection psycopg2.connect opened for one scope (not a pool member)
AdHocConn == maxconn + 1

Requests == 1..NumReq
\* enough requests to ask the pool for one connection more than it has
PoolRequests == 1..(maxconn + 1)
Scopes == 0..(maxconn + 1)

\* ------------------------------------------------------------ strip()
WS == " "

RECURSIVE lstrip(_)
lstrip(s) == IF s # <<>> /\ Head(s) = WS THEN lstrip(Tail(s)) ELSE s

RECURSIVE rstrip(_)
rstrip(s) == IF s # <<>> /\ s[Len(s)] = WS THEN rstrip(SubSeq(s, 1, Len(s) - 1)) ELSE s

strip(s) == rstrip(lstrip(s))

\* dict.get(key, default)
get(d, key, default) == IF key \in DOMAIN d THEN d[key] ELSE default

Min(S) == CHOOSE c \in S : \A d \in S : c <= d

\* ---------------------------------------------------------- request data
NoData == [kind |-> "none", json |-> <<>>]

\* what request.get_json() is given: no body, a body that is not JSON, or a
\* JSON object whose title / content are strings or absent
Bodies ==
    { [kind |-> "missing",   json |-> <<>>],
      [kind |-> "malformed", json |-> <<>>],
      [kind |-> "json", json |-> [content |-> <<"x">>]],
      [kind |-> "json", json |-> [title |-> <<"a">>, content |-> <<>>]],
      [kind |-> "json", json |-> [title |-> <<" ", " ">>, content |-> <<" ", "y">>]],
      [kind |-> "json", json |-> [title |-> <<" ", "a">>, content |-> <<"x", " ">>]],
      [kind |-> "json", json |-> [title |-> <<"b", " ">>, content |-> <<" ", "y">>]] }

\* <int:entry_id> of the route: ids that may exist and ids that never do
EntryIds == 1..NumReq

Idle ==
    [pc |-> "idle", op |-> "none", data |-> NoData, entry_id |-> 0,
     title |-> <<>>, content |-> <<>>, conn |-> NoConn,
     resp |-> 0, error |-> "", log |-> <<>>]

\* a handler's return: the locals are gone; the status, the error of the
\* JSON answer ("" on success, str(e) named by its exception on a 500) and
\* the trace of the calls made on the connection stay
Done(r, status, error, trace) ==
    [Idle EXCEPT !.pc = "done", !.op = r.op, !.resp = status, !.error = error,
                 !.log = trace]

\* ------------------------------------------------ init_connection_pool
\* faulty variant: the pool hands out a connection that is still held once all
\* of them are out
getconn_reuse(u) ==
    IF Cardinality(u) >= maxconn
    THEN [ok |-> TRUE, conn |-> Min(PoolConns)]
    ELSE [ok |-> TRUE, conn |-> Min(PoolConns \ u)]

\* ThreadedConnectionPool.getconn: a connection nobody holds, or PoolError
\* once maxconn connections are out
getconn(u) ==
    IF Cardinality(u) >= maxconn
    THEN [ok |-> FALSE, conn |-> NoConn]
    ELSE [ok |-> TRUE, conn |-> Min(PoolConns \ u)]

\* get_db_connection up to its yield.  fail: the server refuses the
\* connection (psycopg2.OperationalError)
acquire(fail) ==
    IF connection_pool
    THEN LET g == getconn(used) IN
         IF ~g.ok THEN [conn |-> NoConn, err |-> "PoolError", log |-> <<>>]
         ELSE IF fail THEN [conn |-> NoConn, err |-> "OperationalError", log |-> <<>>]
         ELSE [conn |-> g.conn, err |-> "none", log |-> <<"getconn">>]
    ELSE IF fail THEN [conn |-> NoConn, err |-> "OperationalError", log |-> <<>>]
         ELSE [conn |-> AdHocConn, err |-> "none", log |-> <<"connect">>]

\* faulty variant: the release sits after the yield instead of in a finally clause
release_no_finally(conn, err) ==
    IF err = "exc"
    THEN [log |-> <<>>, used |-> used]
    ELSE [log  |-> (IF err = "db" THEN <<"rollback">> ELSE <<>>)
                     \o <<IF connection_pool THEN "putconn" ELSE "close">>,
          used |-> used \ {conn}]

\* faulty variant: the except clause re-raises without conn.rollback()
release_no_rollback(conn, err) ==
    [log  |-> <<IF connection_pool THEN "putconn" ELSE "close">>,
     used |-> used \ {conn}]

\* get_db_connection after its yield: the except clause, then the finally
\* clause.  err is what the body raised: "none", "db" (psycopg2.Error) or
\* "exc" (any other exception)
release(conn, err) ==
    [log  |-> (IF err = "db" THEN <<"rollback">> ELSE <<>>)
                \o <<IF connection_pool THEN "putconn" ELSE "close">>,
     used |-> used \ {conn}]

\* ------------------------------------------------------------ statements
\* Where a database call of a scope can raise.  "none": nothing raises;
\* "execute", "fetch", "commit": that call raises psycopg2.Error;
\* "exc": the isoformat() conversion raises (not a psycopg2.Error)
Faults == {"none", "execute", "fetch", "commit", "exc"}

Outcome(trace, error, status, rows, seq, now) ==
    [log |-> trace, err |-> error, resp |-> status, table |-> rows,
     id_seq |-> seq, clock |-> now]

\* the row the UPDATE / DELETE of entry_id matches, as a set of 0 or 1 rows
Matching(entry_id) == {row \in table : row.id = entry_id}

\* CREATE TABLE IF NOT EXISTS, CREATE INDEX IF NOT EXISTS (twice), commit
init_db_run(fault) ==
    CASE fault = "execute" -> Outcome(<<"dberror">>, "db", 0, table, id_seq, clock)
      [] fault = "commit"  -> Outcome(<<"execute", "execute", "execute", "dberror">>,
                                      "db", 0, table, id_seq, clock)
      [] OTHER             -> Outcome(<<"execute", "execute", "execute", "commit">>,
                                      "none", 0, table, id_seq, clock)

\* SELECT ... ORDER BY created_at DESC, fetchall, isoformat; no commit
get_entries_run(fault) ==
    CASE fault = "execute" -> Outcome(<<"dberror">>, "db", 500, table, id_seq, clock)
      [] fault = "fetch"   -> Outcome(<<"execute", "dberror">>, "db", 500,
                                      table, id_seq, clock)
      [] fault = "exc"     -> Outcome(<<"execute", "fetch", "exception">>, "exc", 500,
                                      table, id_seq, clock)
      [] OTHER             -> Outcome(<<"execute", "fetch">>, "none", 200,
                                      table, id_seq, clock)

\* INSERT ... RETURNING: id from the sequence, both timestamps from the
\* column default CURRENT_TIMESTAMP
inserted(title, content) ==
    [id |-> id_seq, title |-> title, content |-> content,
     created_at |-> clock, updated_at |-> clock]

\* faulty variant: conn.commit() is called right after execute, before fetchone
create_entry_run_commit_early(title, content, fault) ==
    CASE fault = "execute" -> Outcome(<<"dberror">>, "db", 500, table, id_seq, clock)
      [] fault = "fetch"   -> Outcome(<<"execute", "commit", "dberror">>, "db", 500,
                                      table \cup {inserted(title, content)},
                                      id_seq + 1, clock + 1)
      [] fault = "exc"     -> Outcome(<<"execute", "commit", "fetch", "exception">>,
                                      "exc", 500,
                                      table \cup {inserted(title, content)},
                                      id_seq + 1, clock + 1)
      [] fault = "commit"  -> Outcome(<<"execute", "dberror">>, "db", 500,
                                      table, id_seq + 1, clock + 1)
      [] OTHER             -> Outcome(<<"execute", "commit", "fetch">>, "none", 201,
                                      table \cup {inserted(title, content)},
                                      id_seq + 1, clock + 1)

create_entry_run(title, content, fault) ==
    CASE fault = "execute" -> Outcome(<<"dberror">>, "db", 500, table, id_seq, clock)
      [] fault = "fetch"   -> Outcome(<<"execute", "dberror">>, "db", 500,
                                      table, id_seq + 1, clock + 1)
      [] fault = "exc"     -> Outcome(<<"execute", "fetch", "exception">>, "exc", 500,
                                      table, id_seq + 1, clock + 1)
      [] fault = "commit"  -> Outcome(<<"execute", "fetch", "dberror">>, "db", 500,
                                      table, id_seq + 1, clock + 1)
      [] OTHER             -> Outcome(<<"execute", "fetch", "commit">>, "none", 201,
                                      table \cup {inserted(title, content)},
                                      id_seq + 1, clock + 1)

\* faulty variant: the SET list leaves updated_at out
updated_keep_timestamp(row, title, content) ==
    [row EXCEPT !.title = title, !.content = content]

\* UPDATE ... SET title, content, updated_at = CURRENT_TIMESTAMP WHERE id
updated(row, title, content) ==
    [row EXCEPT !.title = title, !.content = content, !.updated_at = clock]

\* faulty variant: conn.commit() is called before the "if not entry" test
update_entry_run_commit_first(entry_id, title, content, fault) ==
    LET hit == Matching(entry_id)
        now == IF hit = {} THEN clock ELSE clock + 1
    IN
    IF fault = "execute"
    THEN Outcome(<<"dberror">>, "db", 500, table, id_seq, clock)
    ELSE IF fault = "fetch"
    THEN Outcome(<<"execute", "dberror">>, "db", 500, table, id_seq, now)
    ELSE IF fault = "commit"
    THEN Outcome(<<"execute", "fetch", "dberror">>, "db", 500, table, id_seq, now)
    ELSE IF hit = {}
    THEN Outcome(<<"execute", "fetch", "commit">>, "none", 404, table, id_seq, now)
    ELSE IF fault = "exc"
    THEN Outcome(<<"execute", "fetch", "commit", "exception">>, "exc", 500,
                 (table \ hit) \cup {updated(row, title, content) : row \in hit},
                 id_seq, now)
    ELSE Outcome(<<"execute", "fetch", "commit">>, "none", 200,
                 (table \ hit) \cup {updated(row, title, content) : row \in hit},
                 id_seq, now)

update_entry_run(entry_id, title, content, fault) ==
    LET hit == Matching(entry_id)
        now == IF hit = {} THEN clock ELSE clock + 1
    IN
    IF fault = "execute"
    THEN Outcome(<<"dberror">>, "db", 500, table, id_seq, clock)
    ELSE IF fault = "fetch"
    THEN Outcome(<<"execute", "dberror">>, "db", 500, table, id_seq, now)
    ELSE IF hit = {}
    THEN Outcome(<<"execute", "fetch">>, "none", 404, table, id_seq, now)
    ELSE IF fault = "exc"
    THEN Outcome(<<"execute", "fetch", "exception">>, "exc", 500, table, id_seq, now)
    ELSE IF fault = "commit"
    THEN Outcome(<<"execute", "fetch", "dberror">>, "db", 500, table, id_seq, now)
    ELSE Outcome(<<"execute", "fetch", "commit">>, "none", 200,
                 (table \ hit) \cup {updated(row, title, content) : row \in hit},
                 id_seq, now)

\* faulty variant: the handler returns its 200 without conn.commit()
delete_entry_run_no_commit(entry_id, fault) ==
    LET hit == Matching(entry_id) IN
    IF fault = "execute"
    THEN Outcome(<<"dberror">>, "db", 500, table, id_seq, clock)
    ELSE IF fault = "fetch"
    THEN Outcome(<<"execute", "dberror">>, "db", 500, table, id_seq, clock)
    ELSE IF hit = {}
    THEN Outcome(<<"execute", "fetch">>, "none", 404, table, id_seq, clock)
    ELSE Outcome(<<"execute", "fetch">>, "none", 200, table, id_seq, clock)

\* DELETE ... WHERE id = %s RETURNING id
delete_entry_run(entry_id, fault) ==
    LET hit == Matching(entry_id) IN
    IF fault = "execute"
    THEN Outcome(<<"dberror">>, "db", 500, table, id_seq, clock)
    ELSE IF fault = "fetch"
    THEN Outcome(<<"execute", "dberror">>, "db", 500, table, id_seq, clock)
    ELSE IF hit = {}
    THEN Outcome(<<"execute", "fetch">>, "none", 404, table, id_seq, clock)
    ELSE IF fault = "commit"
    THEN Outcome(<<"execute", "fetch", "dberror">>, "db", 500, table, id_seq, clock)
    ELSE Outcome(<<"execute", "fetch", "commit">>, "none", 200,
                 table \ hit, id_seq, clock)

\* the faults a scope's body can meet on the path it takes
FaultsOf(r) ==
    CASE r.op = "get_entries"  -> {"none", "execute", "fetch", "exc"}
      [] r.op = "create_entry" -> Faults
      [] r.op = "update_entry" -> IF Matching(r.entry_id) = {}
                                  THEN {"none", "execute", "fetch"} ELSE Faults
      [] r.op = "delete_entry" -> IF Matching(r.entry_id) = {}
                                  THEN {"none", "execute", "fetch"}
                                  ELSE {"none", "execute", "fetch", "commit"}
      [] OTHER                 -> {"none", "execute", "commit"}

run(r, fault) ==
    CASE r.op = "get_entries"  -> get_entries_run(fault)
      [] r.op = "create_entry" -> create_entry_run(r.title, r.content, fault)
      [] r.op = "update_entry" -> update_entry_run(r.entry_id, r.title, r.content, fault)
      [] r.op = "delete_entry" -> delete_entry_run(r.entry_id, fault)
      [] OTHER                 -> init_db_run(fault)

\* the handler's returns: the answer of the path taken, and the
\* "except Exception" that turns any exception into a 500 with str(e)
response_of(out) ==
    IF out.err = "db" THEN [resp |-> 500, error |-> "psycopg2.Error"]
    ELSE IF out.err = "exc" THEN [resp |-> 500, error |-> "Exception"]
    ELSE IF out.resp = 404 THEN [resp |-> 404, error |-> "Entry not found"]
    ELSE [resp |-> out.resp, error |-> ""]

\* faulty variant: the emptiness test reads "not title and not content"
validate_both_empty(data) ==
    IF data.kind = "malformed"
    THEN [ok |-> FALSE, resp |-> 500, err |-> "BadRequest",
          title |-> <<>>, content |-> <<>>]
    ELSE IF data.kind = "missing"
    THEN [ok |-> FALSE, resp |-> 500, err |-> "AttributeError",
          title |-> <<>>, content |-> <<>>]
    ELSE LET title   == strip(get(data.json, "title", <<>>))
             content == strip(get(data.json, "content", <<>>))
         IN IF title = <<>> /\ content = <<>>
            THEN [ok |-> FALSE, resp |-> 400,
                  err |-> "Title and content are required",
                  title |-> title, content |-> content]
            ELSE [ok |-> TRUE, resp |-> 0, err |-> "none",
                  title |-> title, content |-> content]

\* ------------------------------------------------------------- validation
\* request.get_json(), the two .get(...).strip(), and the emptiness test
validate(data) ==
    IF data.kind = "malformed"
    THEN [ok |-> FALSE, resp |-> 500, err |-> "BadRequest",
          title |-> <<>>, content |-> <<>>]
    ELSE IF data.kind = "missing"
    THEN [ok |-> FALSE, resp |-> 500, err |-> "AttributeError",
          title |-> <<>>, content |-> <<>>]
    ELSE LET title   == strip(get(data.json, "title", <<>>))
             content == strip(get(data.json, "content", <<>>))
         IN IF title = <<>> \/ content = <<>>
            THEN [ok |-> FALSE, resp |-> 400,
                  err |-> "Title and content are required",
                  title |-> title, content |-> content]
            ELSE [ok |-> TRUE, resp |-> 0, err |-> "none",
                  title |-> title, content |-> content]

\* get_entries and delete_entry read no body
checked(r) ==
    IF r.op \in {"create_entry", "update_entry"}
    THEN validate(r.data)
    ELSE [ok |-> TRUE, resp |-> 0, err |-> "none", title |-> <<>>, content |-> <<>>]

\* ------------------------------------------------------------------ steps
Init ==
    /\ phase = "start"
    /\ connection_pool = FALSE
    /\ used = {}
    /\ table = {}
    /\ id_seq = 1
    /\ clock = 1
    /\ schema = FALSE
    /\ req = [s \in Scopes |-> Idle]

\* the handler up to "with get_db_connection() as conn"
EnterScope(s, fail) ==
    /\ req[s].pc = "received"
    /\ LET v == checked(req[s])
           a == acquire(fail)
       IN IF ~v.ok
          THEN /\ req' = [req EXCEPT ![s] = Done(req[s], v.resp, v.err, <<>>)]
               /\ UNCHANGED used
          ELSE IF a.conn = NoConn
          THEN /\ req' = [req EXCEPT ![s] = Done(req[s], 500, a.err, <<>>)]
               /\ UNCHANGED used
          ELSE /\ req' = [req EXCEPT ![s] =
                            [req[s] EXCEPT !.pc = "scope",
                                           !.title = v.title, !.content = v.content,
                                           !.conn = a.conn, !.log = a.log]]
               /\ used' = used \cup ({a.conn} \cap PoolConns)
    /\ UNCHANGED <<phase, connection_pool, table, id_seq, clock, schema>>

\* the body of the with block, the exit of get_db_connection, the response
LeaveScope(s, fault) ==
    /\ req[s].pc = "scope"
    /\ fault \in FaultsOf(req[s])
    /\ LET out == run(req[s], fault)
           rel == release(req[s].conn, out.err)
       IN /\ req' = [req EXCEPT ![s] =
                       Done(req[s], response_of(out).resp, response_of(out).error,
                            req[s].log \o out.log \o rel.log)]
          /\ used' = rel.used
          /\ table' = out.table
          /\ id_seq' = out.id_seq
          /\ clock' = out.clock

\* -------------------------------------------------------------- __main__
init_connection_pool ==
    /\ phase = "start"
    /\ phase' = "pool_done"
    /\ connection_pool' \in BOOLEAN
    /\ UNCHANGED <<used, table, id_seq, clock, schema, req>>

\* faulty variant: init_db() is wrapped in the same try / except as the pool
after_init_db_swallow(error) == "serving"

\* init_db() is called outside any try: what it raises ends the process
\* before app.run
after_init_db(error) == IF error = "" THEN "serving" ELSE "exit"

init_db ==
    \/ /\ phase = "pool_done"
       /\ \E fail \in BOOLEAN :
            LET a == acquire(fail) IN
            IF a.conn = NoConn
            THEN /\ req' = [req EXCEPT ![0] =
                              [Idle EXCEPT !.pc = "done", !.op = "init_db",
                                           !.error = a.err]]
                 /\ phase' = after_init_db(a.err)
                 /\ UNCHANGED used
            ELSE /\ req' = [req EXCEPT ![0] =
                              [Idle EXCEPT !.pc = "scope", !.op = "init_db",
                                           !.conn = a.conn, !.log = a.log]]
                 /\ phase' = "init_db"
                 /\ used' = used \cup ({a.conn} \cap PoolConns)
       /\ UNCHANGED <<connection_pool, table, id_seq, clock, schema>>
    \/ /\ phase = "init_db"
       /\ \E fault \in Faults : LeaveScope(0, fault)
       /\ schema' = (req'[0].error = "")
       /\ phase' = after_init_db(req'[0].error)
       /\ UNCHANGED connection_pool

\* ------------------------------------------------------------- requests
\* app.run: the server hands request s, the next to arrive, to a handler.
\* Requests are numbered as they arrive, and a request is numbered once the
\* one before it has got past its validation (which touches nothing shared)
Receive(s, op, data, entry_id) ==
    /\ phase = "serving"
    /\ req[s].pc = "idle"
    /\ s > 1 => req[s - 1].pc \in {"scope", "done"}
    /\ req' = [req EXCEPT ![s] =
                 [Idle EXCEPT !.pc = "received", !.op = op, !.data = data,
                              !.entry_id = entry_id]]
    /\ UNCHANGED <<phase, connection_pool, used, table, id_seq, clock, schema>>

\* fails, faults: what the database may do to this request
Handle(s, op, fails, faults) ==
    /\ req[s].op = op
    /\ \/ \E fail \in fails : EnterScope(s, fail)
       \/ /\ \E fault \in faults : LeaveScope(s, fault)
          /\ UNCHANGED <<phase, connection_pool, schema>>

get_entries(s, fails, faults) ==
    \/ Receive(s, "get_entries", NoData, 0)
    \/ Handle(s, "get_entries", fails, faults)

create_entry(s) ==
    \/ \E data \in Bodies : Receive(s, "create_entry", data, 0)
    \/ Handle(s, "create_entry", BOOLEAN, Faults)

update_entry(s) ==
    \/ \E data \in Bodies, entry_id \in EntryIds :
          Receive(s, "update_entry", data, entry_id)
    \/ Handle(s, "update_entry", BOOLEAN, Faults)

delete_entry(s) ==
    \/ \E entry_id \in EntryIds : Receive(s, "delete_entry", NoData, entry_id)
    \/ Handle(s, "delete_entry", BOOLEAN, Faults)

Next ==
    \/ init_connection_pool
    \/ init_db
    \/ \E s \in Requests : get_entries(s, BOOLEAN, Faults)
    \/ \E s \in Requests : create_entry(s)
    \/ \E s \in Requests : update_entry(s)
    \/ \E s \in Requests : delete_entry(s)

Spec == Init /\ [][Next]_vars

\* The pool under load: the server is up in pooled mode (the state init_db
\* leaves on success), the database answers every call, and maxconn + 1
\* list requests arrive.  The first of them are already inside their
\* scopes, each with the connection getconn gave it.
InScope == 1..(maxconn - 2)

InitPool ==
    /\ phase = "serving"
    /\ connection_pool = TRUE
    /\ used = InScope
    /\ table = {}
    /\ id_seq = 1
    /\ clock = 1
    /\ schema = TRUE
    /\ req = [s \in Scopes |->
                IF s = 0
                THEN Done([op |-> "init_db"], 0, "",
                          <<"getconn", "execute", "execute", "execute",
                            "commit", "putconn">>)
                ELSE IF s \in InScope
                THEN [Idle EXCEPT !.pc = "scope", !.op = "get_entries",
                                  !.conn = s, !.log = <<"getconn">>]
                ELSE Idle]

NextPool == \E s \in PoolRequests : get_entries(s, {FALSE}, {"none"})

SpecPool == InitPool /\ [][NextPool]_vars

\* ================================================================ claims
Has(trace, e) == \E i \in DOMAIN trace : trace[i] = e
Count(trace, e) == Cardinality({i \in DOMAIN trace : trace[i] = e})
Last(trace) == trace[Len(trace)]
\* the call made on the connection right before it was released
BeforeRelease(trace) == trace[Len(trace) - 1]
Acquired(r) == r.log # <<>> /\ Head(r.log) \in {"getconn", "connect"}
Finished(s) == req[s].pc = "done"
Blank(str) == \A i \in DOMAIN str : str[i] = WS
Writers == {"create_entry", "update_entry", "delete_entry"}

\* C1: every scope that got a connection releases it exactly once, as the
\* last thing it does, on every exit path: with putconn and never close
\* when it came from the pool, with close when it was opened ad hoc.  The
\* connections out of the pool are exactly those of the scopes still
\* running, so none is out once every scope has finished.
C1_ReleasedOnEveryPath ==
    /\ \A s \in Scopes :
         Finished(s) /\ Acquired(req[s]) =>
            /\ Count(req[s].log, "putconn") + Count(req[s].log, "close") = 1
            /\ Head(req[s].log) = "getconn" =>
                 Last(req[s].log) = "putconn" /\ ~Has(req[s].log, "close")
            /\ Head(req[s].log) = "connect" => Last(req[s].log) = "close"
    /\ used = {req[s].conn : s \in {t \in Scopes : req[t].pc = "scope"}} \cap PoolConns
    /\ (\A s \in Scopes : req[s].pc # "scope") => used = {}

\* a pooled scope left by a non-database exception, a second one left by
\* the 404 return, and nothing out of the pool afterwards
C1_Witness ==
    /\ connection_pool
    /\ \E s \in Requests :
         /\ Finished(s) /\ req[s].error = "Exception"
         /\ Acquired(req[s]) /\ Last(req[s].log) = "putconn"
    /\ \E s \in Requests :
         /\ Finished(s) /\ req[s].resp = 404
         /\ Acquired(req[s]) /\ Last(req[s].log) = "putconn"
    /\ used = {}

\* a value as strip() leaves it when it is not empty
Stripped(str) == str # <<>> /\ Head(str) # WS /\ Last(str) # WS

EmptyField(data, key) == key \notin DOMAIN data.json \/ Blank(data.json[key])

C2_StoredFields == \A row \in table : Stripped(row.title) /\ Stripped(row.content)

\* the rejection: answered 400 "Title and content are required" before any
\* connection is acquired or statement issued, changing nothing
C2_RejectStep ==
    \A s \in Requests :
        ( /\ req[s].pc = "received"
          /\ req[s].op \in {"create_entry", "update_entry"}
          /\ req[s].data.kind = "json"
          /\ EmptyField(req[s].data, "title") \/ EmptyField(req[s].data, "content")
          /\ req'[s] # req[s] )
        => /\ req'[s].pc = "done"
           /\ req'[s].resp = 400
           /\ req'[s].error = "Title and content are required"
           /\ req'[s].log = <<>>
           /\ used' = used
           /\ table' = table

\* C2: every step that handles a Create or Update with an absent, empty or
\* blank title or content is the 400 rejection above (no connection, no
\* statement, table unchanged), and every stored row has a non-empty,
\* stripped title and content.
C2_EmptyRejected == [](C2_StoredFields) /\ [][C2_RejectStep]_vars

\* an Update with an empty field was refused while a row was stored
C2_Witness ==
    /\ table # {}
    /\ \E s \in Requests :
         Finished(s) /\ req[s].op = "update_entry" /\ req[s].resp = 400

\* the statement of an Update or Delete ran (no database error) and
\* matched no row
C3_NotFoundStep ==
    \A s \in Requests :
        ( /\ req[s].pc = "scope"
          /\ req[s].op \in {"update_entry", "delete_entry"}
          /\ Matching(req[s].entry_id) = {}
          /\ req'[s].pc = "done"
          /\ req'[s].resp # 500 )
        => /\ req'[s].resp = 404
           /\ req'[s].error = "Entry not found"
           /\ ~Has(req'[s].log, "commit")
           /\ table' = table

\* C3: every step in which an Update or Delete finds no row for its id
\* answers 404 "Entry not found" without a commit and with the table as it
\* was.
C3_NotFound == [][C3_NotFoundStep]_vars

\* an Update answered 404 on a table that holds a row
C3_Witness ==
    /\ table # {}
    /\ \E s \in Requests :
         /\ Finished(s) /\ req[s].op = "update_entry"
         /\ req[s].resp = 404 /\ req[s].error = "Entry not found"

\* execute, fetch or commit raised a database error inside the scope of
\* Create, Update or Delete
C4_DbErrorStep ==
    \A s \in Requests :
        ( /\ req[s].pc = "scope"
          /\ req[s].op \in Writers
          /\ req'[s].pc = "done"
          /\ Has(req'[s].log, "dberror") )
        => /\ req'[s].resp = 500
           /\ req'[s].error # ""
           /\ BeforeRelease(req'[s].log) = "rollback"
           /\ Last(req'[s].log) \in {"putconn", "close"}
           /\ Count(req'[s].log, "rollback") = 1
           /\ table' = table

\* C4: every step in which Create, Update or Delete meets a database error
\* rolls back right before releasing the connection, leaves the table as it
\* was and answers 500.
C4_RollbackBeforeRelease == [][C4_DbErrorStep]_vars

\* a Create whose commit raised, after its INSERT had run
C4_Witness ==
    \E s \in Requests :
        /\ Finished(s) /\ req[s].op = "create_entry"
        /\ req[s].log = <<"getconn", "execute", "fetch", "dberror", "rollback", "putconn">>

\* C5 as stated: every request answered 200 or 201 issued a commit on its
\* connection before releasing it.
C5_AllFourCommit ==
    \A s \in Requests :
        Finished(s) /\ req[s].resp \in {200, 201} =>
            Has(req[s].log, "commit")

\* C5 as amended: Create, Update and Delete commit right before the release
\* when they answer 200 or 201; List answers 200 without any commit.
C5_WritersCommit ==
    \A s \in Requests :
        Finished(s) /\ req[s].resp \in {200, 201} =>
            IF req[s].op \in Writers
            THEN /\ BeforeRelease(req[s].log) = "commit"
                 /\ Last(req[s].log) \in {"putconn", "close"}
            ELSE ~Has(req[s].log, "commit")

\* a Create answered 201 and a List answered 200
C5_Witness ==
    /\ \E s \in Requests : Finished(s) /\ req[s].resp = 201
    /\ \E s \in Requests :
         Finished(s) /\ req[s].op = "get_entries" /\ req[s].resp = 200

\* the requests inside their scopes; at most maxconn of them, each with a
\* connection of its own that the pool counts as out
Holders == {s \in Scopes : req[s].pc = "scope"}

C6_Distinct ==
    /\ Cardinality(Holders) <= maxconn
    /\ \A s, t \in Holders : s # t => req[s].conn # req[t].conn
    /\ \A s \in Holders : req[s].conn \in used

\* C6 as stated: a request that arrives while all the connections are held
\* is not failed (it waits for a release and then proceeds).
C6_BlocksNotFails ==
    /\ C6_Distinct
    /\ \A s \in Scopes : Finished(s) => req[s].error # "PoolError"

\* a request that asks for a connection while all maxconn are held does
\* not wait: it is answered 500 at once, holding no connection
C6_ExhaustedStep ==
    \A s \in Scopes :
        ( /\ req[s].pc = "received"
          /\ Cardinality(used) = maxconn
          /\ req'[s] # req[s] )
        => /\ req'[s].pc = "done"
           /\ req'[s].resp = 500
           /\ req'[s].error = "PoolError"
           /\ req'[s].log = <<>>
           /\ used' = used

\* C6 as amended: at most maxconn requests hold a connection, no two the
\* same one, and a request that finds all of them held is answered 500
\* (PoolError) at once instead of waiting.
C6_BoundedPool == [](C6_Distinct) /\ [][C6_ExhaustedStep]_vars

\* all maxconn connections are held and one more request has been refused
C6_Witness ==
    /\ Cardinality(Holders) = maxconn
    /\ \E s \in Scopes : Finished(s) /\ req[s].error = "PoolError"

\* the handler meets a body that is missing or is not JSON
C7_BadBodyStep ==
    \A s \in Requests :
        ( /\ req[s].pc = "received"
          /\ req[s].op \in {"create_entry", "update_entry"}
          /\ req[s].data.kind \in {"missing", "malformed"}
          /\ req'[s] # req[s] )
        => /\ req'[s].resp = 400
           /\ req'[s].log = <<>>
           /\ used' = used
           /\ table' = table

\* C7 as stated: every step that handles a Create or Update with a missing
\* or malformed body answers 400 and touches neither pool nor table.
C7_BadBodyIs400 == [][C7_BadBodyStep]_vars

NotWS(c) == c # WS
\* the request bodies carry whitespace at the ends of a value only
Trimmed(str) == SelectSeq(str, NotWS)

C8_Timestamps == \A row \in table : row.updated_at >= row.created_at

\* a successful Update: title and content become the request's values
\* without their surrounding whitespace, id and created_at stay, every other
\* row stays, updated_at grows
C8_UpdateStep ==
    \A s \in Requests :
        ( /\ req[s].pc = "scope"
          /\ req[s].op = "update_entry"
          /\ req'[s].pc = "done"
          /\ req'[s].resp = 200 )
        => \E old \in table, new \in table' :
              /\ old.id = req[s].entry_id
              /\ new.id = old.id
              /\ new.title = Trimmed(req[s].data.json.title)
              /\ new.content = Trimmed(req[s].data.json.content)
              /\ new.created_at = old.created_at
              /\ new.updated_at > old.updated_at
              /\ table' \ {new} = table \ {old}
              /\ Cardinality(table') = Cardinality(table)

C9_Startup ==
    /\ phase \in {"serving", "init_db", "exit"} => req[0].op = "init_db"
    /\ phase = "exit" => Finished(0) /\ req[0].error # ""
    /\ phase = "serving" =>
         /\ schema
         /\ Finished(0) /\ req[0].error = ""
         /\ BeforeRelease(req[0].log) = "commit"
    /\ (\E s \in Requests : req[s].pc # "idle") => phase = "serving"
    /\ ~connection_pool =>
         /\ used = {}
         /\ \A s \in Scopes :
              /\ ~Has(req[s].log, "getconn") /\ ~Has(req[s].log, "putconn")
              /\ Finished(s) /\ Acquired(req[s]) => Last(req[s].log) = "close"

\* the pool could not be made, the schema was, and a request has been
\* served on a connection of its own
C9_Witness ==
    /\ ~connection_pool
    /\ phase = "serving"
    /\ \E s \in Requests :
         Finished(s) /\ Acquired(req[s]) /\ Last(req[s].log) = "close"

\* C10 as stated: whenever a scope that executed a statement hands its
\* connection back, a commit or a rollback is the call right before.
EndsTransaction(trace) == BeforeRelease(trace) \in {"commit", "rollback"}

C10_AlwaysEnded ==
    \A s \in Scopes :
        Finished(s) /\ Has(req[s].log, "execute") => EndsTransaction(req[s].log)

\* C10 as amended: a scope ends its transaction itself before the release
\* exactly when it succeeded in init_db, Create, Update or Delete (commit)
\* or met a database error (rollback); after a successful List, a 404 of
\* Update or Delete, or a non-database exception the connection is handed
\* back with the transaction of the last statement still open.
C10_EndedOnlyOnCommitOrDbError ==
    \A s \in Scopes :
        Finished(s) /\ Acquired(req[s]) =>
            ( EndsTransaction(req[s].log)
              <=> \/ Has(req[s].log, "dberror")
                  \/ req[s].error = "" /\ req[s].op # "get_entries" )

\* a List and a 404 each released a pooled connection right after fetch
C10_Witness ==
    /\ \E s \in Requests :
         /\ Finished(s) /\ req[s].op = "get_entries"
         /\ req[s].log = <<"getconn", "execute", "fetch", "putconn">>
    /\ \E s \in Requests :
         /\ Finished(s) /\ req[s].resp = 404
         /\ req[s].log = <<"getconn", "execute", "fetch", "putconn">>

====
